---- MODULE Spec2Model ----
(***************************************************************************)
(* gitlab-ci-exporter: the pipeline store (tables pipelines, daily_stats   *)
(* and poll_state), the single-row upsert insert_pipeline with its         *)
(* incremental daily_stats reconciliation, the bulk rebuild                *)
(* backfill_daily_stats, and the watermark-driven monitor loop.            *)
(*                                                                         *)
(* An SQL NULL / Rust Option is a set with at most one element: None is    *)
(* {} and Some(v) is {v}.  A table is a function from the primary keys of  *)
(* its rows to the rows.  A date 'YYYY-MM-DD' is the number of the UTC day *)
(* since the epoch, which orders and separates days exactly as the text    *)
(* does.                                                                   *)
(***************************************************************************)
EXTENDS Integers, Sequences, FiniteSets, TLC

VARIABLES
    pipelines,      \* table pipelines: id -> row
    daily_stats,    \* table daily_stats: <<date, project_id, status>> -> cell
    last_poll_at,   \* table poll_state: Option of last_poll_at of row id = 1
    call,           \* the last operation on the store, with what it read
    nops,           \* number of store transactions attempted so far
    rebuilds,       \* number of committed backfill_daily_stats runs
    clock,          \* Utc::now(), in seconds
    pc,             \* position of the process (main, then the monitor loop)
    current_loop_start, \* monitor loop: start time of the running cycle
    group,          \* monitor loop: index of the group being polled
    since_time,     \* monitor loop: since passed to the incremental fetch
    fetched,        \* monitor loop: pipelines of the fetch not yet upserted
    restarts,       \* number of process restarts so far
    config,         \* the settings of the process: monitor groups, branch filter
    remote,         \* GitLab: the pipeline observations its REST and GraphQL APIs serve
    hist,           \* monitor loop: what earlier fetches of each group did, or NoRecord
    concurrency,    \* fetch_pipelines_concurrent: permits of the semaphore
    task,           \* fetch_pipelines_concurrent: project id -> state of its task
    results,        \* fetch_pipelines_concurrent: project id -> entries pushed
    enricher,       \* backfill_usernames: position of the task
    batch,          \* backfill_usernames: ids, the pipeline ids of the batch as fetched
    chunk,          \* backfill_usernames: number of chunks of the batch done
    set,            \* backfill_usernames: the JoinSet, pipeline ids of the lookups in flight
    users,          \* GitLab: pipeline id -> what the two user lookups answer
    looked,         \* backfill_usernames: pipeline ids of the batch given to a lookup task
    asked,          \* backfill_usernames: the requests of the lookup task joined last
    upsert_tx,      \* insert_pipeline: Option of the pipeline whose transaction is open
    refresh_tx,     \* trigger_refresh_daily_stats: its rebuild transaction is open
    tasks,          \* main, the initial backfill it awaits and the monitor loop task: position, pipelines to upsert, open upsert transaction and returned calls of each
    permit,         \* refresh_notify: the Notify holds a permit
    waiter,         \* refresh_notify: the notified() future of the loop
    signals,        \* refresh_notify: number of signals fired so far
    gap_fired,      \* a signal was fired since the last wait of the loop ended
    bursts,         \* signals fired, those between the same two waits counted once
    woken,          \* number of times the loop was woken by a signal
    wait_since      \* monitor loop: the time its sleep began

fanoutVars == <<concurrency, task, results>>

enricherVars == <<enricher, batch, chunk, set, users, looked, asked>>

txVars == <<upsert_tx, refresh_tx, tasks>>

notifyVars == <<permit, waiter, signals, gap_fired, bursts, woken, wait_since>>

\* the tasks beside main and the monitor loop
sideVars == <<fanoutVars, enricherVars, txVars, notifyVars>>

vars == <<pipelines, daily_stats, last_poll_at, call, nops, rebuilds, clock,
          pc, current_loop_start, group, since_time, fetched, restarts,
          config, remote, hist, concurrency, task, results, enricherVars,
          txVars, notifyVars>>

storeVars == <<pipelines, daily_stats, last_poll_at, call, nops, rebuilds>>

loopVars == <<clock, pc, current_loop_start, group, since_time, fetched, restarts,
              config, remote, hist>>

monitorVars == <<clock, pc, current_loop_start, group, since_time, fetched, restarts,
                 config, remote, hist, sideVars>>

---------------------------------------------------------------------------
(* Bounds of the model.                                                    *)

MaxOps == 3         \* store transactions per behaviour
MaxClock == 3       \* the clock runs from 0 to MaxClock * 100 seconds
MaxProjects == 3    \* projects handed to one fetch_pipelines_concurrent call
MaxConcurrency == 2 \* small semaphore sizes tried besides the one of the backfill
MaxRestarts == 1    \* process restarts per behaviour

---------------------------------------------------------------------------
(* Options.                                                                *)

None == {}
Some(v) == {v}
IsSome(o) == o # {}
Unwrap(o) == CHOOSE v \in o : TRUE
UnwrapOr(o, d) == IF o = {} THEN d ELSE CHOOSE v \in o : TRUE

\* SQL COALESCE(a, b)
Coalesce(a, b) == IF a # None THEN a ELSE b

---------------------------------------------------------------------------
(* Inputs: the crate::models::Pipeline values handed to insert_pipeline.   *)

Ids == {1, 2}
Statuses == {"pending", "running", "success"}

\* created_at of the observations is 1704067200, 2024-01-01T00:00:00Z
FinishedAts == {None, Some(1704067500)}
Durations == {None, Some(120), Some(300)}

\* one project of the forge; a project's name and full path differ
ProjectNames == {"app"}
ProjectPath(name) == "grp/" \o name

Pipeline(id, project_id, name, ref, user, status, created, finished, dur) ==
    [id |-> id, project_id |-> project_id, project_name |-> name,
     project_full_path |-> ProjectPath(name), ref_name |-> ref, user_name |-> user,
     status |-> status, created_at |-> created, finished_at |-> finished,
     duration |-> dur]

\* the observations of the upsert specification: a pipeline keeps its created_at
Observations ==
    { Pipeline(id, 7, "app", "main", "", st, 1704067200, fin, dur) :
        id \in Ids, st \in Statuses, fin \in FinishedAts, dur \in Durations }

---------------------------------------------------------------------------
(* insert_pipeline: the fact row.                                          *)

\* chrono format("%Y-%m-%d") of a timestamp / SQLite date(ts, 'unixepoch')
Date(ts) == ts \div 86400

\* status = CASE WHEN excluded.finished_at IS NULL AND pipelines.finished_at IS NOT NULL ...
StatusCase_AlwaysExcluded(old, excluded) == excluded.status

StatusCase(old, excluded) ==
    IF excluded.finished_at = None /\ old.finished_at # None
    THEN old.status
    ELSE excluded.status

\* finished_at = CASE WHEN excluded.finished_at IS NOT NULL ...
FinishedAtCase(old, excluded) ==
    IF excluded.finished_at # None THEN excluded.finished_at ELSE old.finished_at

\* duration = CASE WHEN excluded.duration IS NOT NULL ...
DurationCase(old, excluded) ==
    IF excluded.duration # None THEN excluded.duration ELSE old.duration

\* created_at is not among the columns ON CONFLICT(id) DO UPDATE SET assigns
CreatedAtCase_Excluded(old, excluded) == excluded.created_at

CreatedAtCase(old, excluded) == old.created_at

\* user_name = COALESCE(excluded.user_name, pipelines.user_name)
UserNameCase(old, excluded) == Coalesce(excluded.user_name, old.user_name)

\* the row INSERT binds: user_name is a Rust String, bound as a non-NULL text
BoundRow(p) == [p EXCEPT !.user_name = Some(p.user_name)]

\* INSERT INTO pipelines ... ON CONFLICT(id) DO UPDATE SET ...
UpsertRow(existing, p) ==
    IF existing = None
    THEN BoundRow(p)
    ELSE LET old == Unwrap(existing)
             excluded == BoundRow(p)
         IN  [old EXCEPT !.status = StatusCase(old, excluded),
                         !.finished_at = FinishedAtCase(old, excluded),
                         !.duration = DurationCase(old, excluded),
                         !.created_at = CreatedAtCase(old, excluded),
                         !.user_name = UserNameCase(old, excluded)]

\* SELECT ... FROM pipelines WHERE id = ?  (fetch_optional)
Existing(id) == IF id \in DOMAIN pipelines THEN Some(pipelines[id]) ELSE None

---------------------------------------------------------------------------
(* insert_pipeline: the daily_stats reconciliation.                        *)

\* UPDATE daily_stats SET count = count + dc, ... WHERE date, project_id, status = key
UpdateStat(ds, key, dc, dd, dcw) ==
    IF key \in DOMAIN ds
    THEN [ds EXCEPT ![key] = [@ EXCEPT !.count = @ + dc,
                                       !.total_duration = @ + dd,
                                       !.count_with_duration = @ + dcw]]
    ELSE ds

\* INSERT INTO daily_stats ... VALUES (?, ?, ?, ?, 1, ?, ?) ON CONFLICT ... DO UPDATE
IncrementStat(ds, key, name, dur, cwd) ==
    [k \in DOMAIN ds \cup {key} |->
        IF k # key THEN ds[k]
        ELSE IF key \in DOMAIN ds
             THEN [project_name |-> name,
                   count |-> ds[key].count + 1,
                   total_duration |-> ds[key].total_duration + dur,
                   count_with_duration |-> ds[key].count_with_duration + cwd]
             ELSE [project_name |-> name, count |-> 1,
                   total_duration |-> dur, count_with_duration |-> cwd]]

\* old_status == p.status: match (old_has_dur, new_has_dur)
SameStatusStats(ds, old, p) ==
    LET key == <<Date(p.created_at), p.project_id, p.status>>
        old_has_dur == IsSome(old.duration)
        old_dur == UnwrapOr(old.duration, 0)
        new_has_dur == IsSome(p.duration)
        new_dur == UnwrapOr(p.duration, 0)
    IN  CASE old_has_dur /\ new_has_dur ->
                 IF new_dur - old_dur # 0
                 THEN UpdateStat(ds, key, 0, new_dur - old_dur, 0)
                 ELSE ds
          [] ~old_has_dur /\ new_has_dur -> UpdateStat(ds, key, 0, new_dur, 1)
          [] old_has_dur /\ ~new_has_dur -> UpdateStat(ds, key, 0, 0 - old_dur, 0 - 1)
          [] OTHER -> ds

\* old_status != p.status: decrement the old cell, increment the new one
StatusChangedStats(ds, old, p) ==
    LET old_key == <<Date(old.created_at), p.project_id, old.status>>
        new_key == <<Date(p.created_at), p.project_id, p.status>>
        old_dur == UnwrapOr(old.duration, 0)
        old_cwd == IF IsSome(old.duration) THEN 1 ELSE 0
        new_dur == UnwrapOr(p.duration, 0)
        new_cwd == IF IsSome(p.duration) THEN 1 ELSE 0
    IN  IncrementStat(UpdateStat(ds, old_key, 0 - 1, 0 - old_dur, 0 - old_cwd),
                      new_key, p.project_full_path, new_dur, new_cwd)

\* no existing row: insert or increment the cell of the new pipeline
NewPipelineStats_AlwaysWithDuration(ds, p) ==
    IncrementStat(ds, <<Date(p.created_at), p.project_id, p.status>>,
                  p.project_full_path, UnwrapOr(p.duration, 0), 1)

NewPipelineStats(ds, p) ==
    IncrementStat(ds, <<Date(p.created_at), p.project_id, p.status>>,
                  p.project_full_path, UnwrapOr(p.duration, 0),
                  IF IsSome(p.duration) THEN 1 ELSE 0)

\* the aggregate statements of insert_pipeline; existing was read before the row upsert
ReconcileStats(ds, existing, p) ==
    IF existing # None
    THEN LET old == Unwrap(existing)
         IN  IF old.status = p.status
             THEN SameStatusStats(ds, old, p)
             ELSE StatusChangedStats(ds, old, p)
    ELSE NewPipelineStats(ds, p)

\* the committed effect of insert_pipeline(p) on the two tables
UpsertedPipelines(p) ==
    [i \in DOMAIN pipelines \cup {p.id} |->
        IF i = p.id THEN UpsertRow(Existing(p.id), p) ELSE pipelines[i]]

UpsertedStats(p) == ReconcileStats(daily_stats, Existing(p.id), p)

InsertCall(p, ok) ==
    [op |-> "insert_pipeline", p |-> p, existing |-> Existing(p.id), ok |-> ok]

\* insert_pipeline(p), every statement and the commit succeed
InsertPipeline(p) ==
    /\ pipelines' = UpsertedPipelines(p)
    /\ daily_stats' = UpsertedStats(p)
    /\ call' = InsertCall(p, TRUE)
    /\ nops' = nops + 1
    /\ UNCHANGED <<last_poll_at, rebuilds>>

\* where insert_pipeline can fail: begin, the SELECT of the existing row, the row
\* upsert, the first daily_stats statement, the commit
FailurePoints == {"begin", "select", "row", "stats", "commit"}

\* the tables as the open transaction sees them when it fails at the point at:
\* a failed statement writes nothing, the statements before it have written
WorkingPipelines(at, p) ==
    IF at \in {"stats", "commit"} THEN UpsertedPipelines(p) ELSE pipelines

WorkingStats(at, p) ==
    IF at = "commit" THEN UpsertedStats(p) ELSE daily_stats

\* tx.rollback(), or the drop of a transaction that was not committed: the table
\* is as it was at begin
Rollback_KeepsWork(before, working) == working

Rollback(before, working) == before

\* the tables a failed insert_pipeline(p) can leave, over the points of failure
FailedOutcomes(p) ==
    { << Rollback(pipelines, WorkingPipelines(at, p)),
         Rollback(daily_stats, WorkingStats(at, p)) >> : at \in FailurePoints }

\* insert_pipeline(p), begin, a statement or the commit fails: rollback, logged
InsertPipelineError(p) ==
    /\ \E left \in FailedOutcomes(p) :
          /\ pipelines' = left[1]
          /\ daily_stats' = left[2]
    /\ call' = InsertCall(p, FALSE)
    /\ nops' = nops + 1
    /\ UNCHANGED <<last_poll_at, rebuilds>>

---------------------------------------------------------------------------
(* backfill_daily_stats: the bulk rebuild of daily_stats.                  *)

\* GROUP BY date, project_id, project_name, status
GroupOf(row) == <<Date(row.created_at), row.project_id, row.project_name, row.status>>

Groups == { GroupOf(pipelines[i]) : i \in DOMAIN pipelines }

GroupIds(g) == { i \in DOMAIN pipelines : GroupOf(pipelines[i]) = g }

RECURSIVE SumDuration(_)
\* SUM(duration) over the rows ids, a NULL duration adding nothing
SumDuration(ids) ==
    IF ids = {} THEN 0
    ELSE LET i == CHOOSE j \in ids : TRUE
         IN  UnwrapOr(pipelines[i].duration, 0) + SumDuration(ids \ {i})

\* COUNT(*), COALESCE(SUM(duration),0), SUM(CASE WHEN duration IS NOT NULL THEN 1 ELSE 0 END)
GroupCell(g) ==
    [project_name |-> g[3],
     count |-> Cardinality(GroupIds(g)),
     total_duration |-> SumDuration(GroupIds(g)),
     count_with_duration |->
        Cardinality({ i \in GroupIds(g) : IsSome(pipelines[i].duration) })]

\* ON CONFLICT(date, project_id, status)
ConflictKey(g) == <<g[1], g[2], g[4]>>

GroupKeys == { ConflictKey(g) : g \in Groups }

\* INSERT INTO daily_stats ... SELECT ... GROUP BY ... ON CONFLICT ... DO UPDATE SET ...:
\* every group is upserted; of the groups of one conflict key the one the SELECT
\* yields last stays, and SQL leaves the order of the groups open (last[k] is that group)
RebuiltStats(last) ==
    [k \in DOMAIN daily_stats \cup GroupKeys |->
        IF k \in GroupKeys THEN GroupCell(last[k]) ELSE daily_stats[k]]

RebuildCall(ok) == [op |-> "backfill_daily_stats", ok |-> ok]

\* backfill_daily_stats, committed
BackfillDailyStats ==
    /\ \E last \in [GroupKeys -> Groups] :
          /\ \A k \in GroupKeys : ConflictKey(last[k]) = k
          /\ daily_stats' = RebuiltStats(last)
    /\ call' = RebuildCall(TRUE)
    /\ nops' = nops + 1
    /\ rebuilds' = rebuilds + 1
    /\ UNCHANGED <<pipelines, last_poll_at>>

\* backfill_daily_stats, begin, the statement or the commit fails: Err, nothing written
BackfillDailyStatsError ==
    /\ call' = RebuildCall(FALSE)
    /\ nops' = nops + 1
    /\ UNCHANGED <<pipelines, daily_stats, last_poll_at, rebuilds>>

---------------------------------------------------------------------------
(* Specifications of the store.                                            *)

NoCall == [op |-> "none"]

\* no record of the fetches is kept
NoRecord == [on |-> FALSE]

\* a future that was not created: no position, nothing to upsert, no transaction,
\* no insert_pipeline call returned
NotStarted == [at |-> "off", group |-> 0, todo |-> << >>, tx |-> None, calls |-> 0]

NoTasks == [t \in {"main", "backfill", "monitor"} |-> NotStarted]

\* no lookup task was joined yet
NoLookup == [id |-> 0, graphql |-> FALSE, rest |-> FALSE]

StoreInit ==
    /\ pipelines = << >>
    /\ daily_stats = << >>
    /\ last_poll_at = None
    /\ call = NoCall
    /\ nops = 0
    /\ rebuilds = 0

\* no fan-out of fetch tasks is running
FanoutIdle ==
    /\ concurrency = 0
    /\ task = << >>
    /\ results = << >>

\* backfill_usernames is not running
EnricherIdle ==
    /\ enricher = "idle"
    /\ batch = << >>
    /\ chunk = 0
    /\ set = {}
    /\ users = << >>
    /\ looked = {}
    /\ asked = NoLookup

\* no transaction is open
TxIdle ==
    /\ upsert_tx = None
    /\ refresh_tx = FALSE
    /\ tasks = NoTasks

\* Notify::new(): no permit, and nothing fired yet
NotifyIdle ==
    /\ permit = FALSE
    /\ waiter = "none"
    /\ signals = 0
    /\ gap_fired = FALSE
    /\ bursts = 0
    /\ woken = 0
    /\ wait_since = 0

\* no task beside main and the monitor loop is running
SideIdle == FanoutIdle /\ EnricherIdle /\ TxIdle /\ NotifyIdle

LoopIdle ==
    /\ clock = 0
    /\ pc = "idle"
    /\ current_loop_start = 0
    /\ group = 0
    /\ since_time = 0
    /\ fetched = << >>
    /\ restarts = 0
    /\ config = [monitor_groups |-> << >>, branch_filter |-> None]
    /\ remote = [rest |-> {}, graphql |-> {}]
    /\ hist = NoRecord

MonitorIdle == LoopIdle /\ SideIdle

InitUpsert == StoreInit /\ MonitorIdle

\* the store specifications stop after MaxOps transactions
Upsert ==
    /\ nops < MaxOps
    /\ \E p \in Observations : InsertPipeline(p)
    /\ UNCHANGED monitorVars

UpsertError ==
    /\ nops < MaxOps
    /\ \E p \in Observations : InsertPipelineError(p)
    /\ UNCHANGED monitorVars

NextUpsert == Upsert \/ UpsertError

\* insert_pipeline alone, from the empty store
SpecUpsert == InitUpsert /\ [][NextUpsert]_vars

Rebuild == nops < MaxOps /\ BackfillDailyStats /\ UNCHANGED monitorVars
RebuildError == nops < MaxOps /\ BackfillDailyStatsError /\ UNCHANGED monitorVars

Next == Upsert \/ Rebuild \/ RebuildError

\* insert_pipeline and backfill_daily_stats (startup, POST /api/refresh_daily_stats)
Spec == InitUpsert /\ [][Next]_vars

---------------------------------------------------------------------------
(* What GitLab reports, and the to_db_pipeline conversions.                *)

\* a timestamp as the text GraphQL carries, and a text that is no timestamp
Rfc3339(ts) == <<"rfc3339", ts>>
NotATime == <<"not a time">>

\* chrono::DateTime::parse_from_rfc3339(s).ok().map(|dt| dt.timestamp())
ParseFromRfc3339(s) == IF Len(s) = 2 THEN Some(s[2]) ELSE None

\* str::to_ascii_lowercase on the status names GitLab uses
ToAsciiLowercase(status) ==
    CASE status = "RUNNING" -> "running"
      [] status = "SUCCESS" -> "success"
      [] OTHER -> status

\* match (self.duration, finished_ts): a reported duration passes as it is, a
\* missing one is computed from the timestamps when that is positive
DurationOf(duration, finished_ts, created_ts) ==
    IF duration # None THEN duration
    ELSE IF finished_ts # None /\ Unwrap(finished_ts) - created_ts > 0
         THEN Some(Unwrap(finished_ts) - created_ts)
         ELSE None

\* PipelineInfo::to_db_pipeline(project_id, project_name, project_full_path)
PipelineInfoToDb(info, project_id, name) ==
    LET created_ts == UnwrapOr(ParseFromRfc3339(info.created_at), 0)
        finished_ts == IF info.finished_at = None THEN None
                       ELSE ParseFromRfc3339(Unwrap(info.finished_at))
    IN  Pipeline(info.id, project_id, name, info.ref_name, info.user,
                 ToAsciiLowercase(info.status), created_ts, finished_ts,
                 DurationOf(info.duration, finished_ts, created_ts))

\* GitlabPipeline::to_db_pipeline: finished_at is the field updated_at of the REST
\* answer, user_name is the empty string
GitlabPipelineToDb(gp, project_id, name) ==
    Pipeline(gp.id, project_id, name, gp.ref, "", ToAsciiLowercase(gp.status),
             gp.created_at, gp.updated_at,
             DurationOf(gp.duration, gp.updated_at, gp.created_at))

\* (times are seconds of day 2 of the epoch, to keep the sums of durations small)
\* GraphQL nodes of pipeline 1: running and not finished, or finished with the
\* duration missing, 0 or 300; createdAt readable or not; with or without a user name
PipelineInfos ==
    { [id |-> 1, status |-> st[1], created_at |-> created, finished_at |-> st[2],
       duration |-> st[3], ref_name |-> "main", user |-> user] :
        st \in { <<"RUNNING", None, None>> }
               \cup { <<"SUCCESS", Some(Rfc3339(172830)), d>> :
                        d \in {None, Some(0), Some(300)} },
        created \in {Rfc3339(172800), NotATime},
        user \in {"", "alice"} }

\* REST list entries of pipeline 1: the list carries updated_at and no duration
GitlabPipelines ==
    { [id |-> 1, ref |-> "main", status |-> st, created_at |-> 172800,
       updated_at |-> Some(updated), duration |-> None] :
        st \in {"running", "success"}, updated \in {172800, 172830} }

\* a pipeline of the incremental fetch is converted and upserted
IngestGraphql ==
    /\ nops < MaxOps
    /\ \E info \in PipelineInfos : InsertPipeline(PipelineInfoToDb(info, 7, "app"))
    /\ UNCHANGED monitorVars

\* a pipeline of the REST backfill is converted and upserted
IngestRest ==
    /\ nops < MaxOps
    /\ \E gp \in GitlabPipelines : InsertPipeline(GitlabPipelineToDb(gp, 7, "app"))
    /\ UNCHANGED monitorVars

NextIngest == IngestGraphql \/ IngestRest

\* what GitLab reports, converted and upserted, from the empty store
SpecIngest == InitUpsert /\ [][NextIngest]_vars

---------------------------------------------------------------------------
(* The watermark: get_last_poll / set_last_poll on poll_state.             *)

\* SELECT last_poll_at FROM poll_state WHERE id = 1
GetLastPoll == last_poll_at

PollCall(by, ts, ok) ==
    [op |-> "set_last_poll", by |-> by, ts |-> ts, before |-> last_poll_at, ok |-> ok]

\* INSERT INTO poll_state ... ON CONFLICT(id) DO UPDATE SET last_poll_at = excluded.last_poll_at
SetLastPoll(by, ts) ==
    /\ last_poll_at' = Some(ts)
    /\ call' = PollCall(by, ts, TRUE)

\* set_last_poll returns Err: nothing written
SetLastPollError(by, ts) ==
    /\ call' = PollCall(by, ts, FALSE)
    /\ UNCHANGED last_poll_at

---------------------------------------------------------------------------
(* main: startup up to the spawn of the monitor loop.                      *)

\* config.gitlab.monitor_groups
MonitorGroups == <<"grp", "grp2">>

\* config.gitlab.branch_filter_regex, compiled: None, or the refs the regex matches
BranchFilter == Some({"main"})

\* Config::new(): the settings the process runs under, fixed from its start
Config(groups, filter) == [monitor_groups |-> groups, branch_filter |-> filter]

\* re.is_match(ref) under the optional filter
BranchMatches_Always(ref) == TRUE

BranchMatches(ref) ==
    config.branch_filter = None \/ ref \in Unwrap(config.branch_filter)

\* what fetch_incremental_activity hands to insert_pipeline, after
\* PipelineInfo::to_db_pipeline: observations of pipeline 1 on two branches
FetchedObservations ==
    { Pipeline(1, 7, "app", ref, "", st[1], 1704067200, st[2], st[3]) :
        ref \in {"main", "dev"},
        st \in { <<"running", None, None>>,
                 <<"success", Some(1704067500), Some(300)>> } }

\* what fetch_pipelines hands to it, after GitlabPipeline::to_db_pipeline: finished_at
\* is the REST updated_at, always present, and the duration is computed from it
BackfillObservations ==
    { Pipeline(1, 7, "app", ref, "", st[1], 1704067200, st[2], st[3]) :
        ref \in {"main", "dev"},
        st \in { <<"running", Some(1704067320), Some(120)>>,
                 <<"success", Some(1704067500), Some(300)>> } }

\* the results of one fetch over the observations obs: at most one pipeline,
\* while the behaviour has store transactions left
FetchResults(obs) ==
    { << >> } \cup { <<p>> : p \in IF nops < MaxOps THEN obs ELSE {} }

\* the record of the fetches of this run of the process, kept where a property
\* needs it: start_wm is the watermark the store held when the process started,
\* until the first watermark read of the run; per group, covered is the start of
\* the latest cycle in which the group's fetch succeeded (the watermark at the
\* start of the loop before that), failed is the since of the group's latest
\* fetch when that fetch failed, lost is the remote update time of a pipeline of
\* the group's latest fetch whose upsert failed; got is the remote update time
\* of the pipeline the running fetch returned; cycle_wm is the watermark at the
\* start of the running cycle, wrote tells whether the watermark write after the
\* latest successful fetch succeeded
PerGroup(v) == [g \in 1..Len(config.monitor_groups) |-> v]

RunStart(wm) ==
    [on |-> TRUE, start_wm |-> wm, covered |-> PerGroup(None),
     failed |-> PerGroup(None), lost |-> PerGroup(None), got |-> None,
     cycle_wm |-> None, wrote |-> FALSE]

\* the record after a step, where one is kept
Record(h) == IF hist.on THEN h ELSE hist

\* db::init_db: seed the watermark row if it is absent
InitDb ==
    /\ pc = "init_db"
    /\ IF GetLastPoll = None
       THEN SetLastPoll("init_db", clock)
       ELSE UNCHANGED <<last_poll_at, call>>
    /\ pc' = "set_initial_poll"
    /\ UNCHANGED <<pipelines, daily_stats, nops, rebuilds, clock, current_loop_start,
                   group, since_time, fetched, restarts, config, remote, hist, sideVars>>

\* main: set_last_poll(now) at service start
MainSetLastPoll ==
    /\ pc = "set_initial_poll"
    /\ SetLastPoll("main", clock)
    /\ pc' = "backfill"
    /\ UNCHANGED <<pipelines, daily_stats, nops, rebuilds, clock, current_loop_start,
                   group, since_time, fetched, restarts, config, remote, hist, sideVars>>

\* main: the initial set_last_poll fails, which is only warned about
MainSetLastPollError ==
    /\ pc = "set_initial_poll"
    /\ SetLastPollError("main", clock)
    /\ pc' = "backfill"
    /\ UNCHANGED <<pipelines, daily_stats, nops, rebuilds, clock, current_loop_start,
                   group, since_time, fetched, restarts, config, remote, hist, sideVars>>

\* main: is_fresh_install, then perform_initial_backfill fetching the pipelines
StartBackfill ==
    /\ pc = "backfill"
    /\ IF DOMAIN pipelines = {}
       THEN \E r \in FetchResults(remote.rest) :
                fetched' = r /\ pc' = "backfill_upsert"
       ELSE fetched' = << >> /\ pc' = "startup_rebuild"
    /\ UNCHANGED <<pipelines, daily_stats, last_poll_at, call, nops, rebuilds, clock,
                   current_loop_start, group, since_time, restarts, config, remote, hist, sideVars>>

\* the next fetched pipeline: skipped by the branch filter, or handed to insert_pipeline
UpsertFetched ==
    /\ fetched # << >>
    /\ fetched' = Tail(fetched)
    /\ IF BranchMatches(Head(fetched).ref_name)
       THEN InsertPipeline(Head(fetched)) \/ InsertPipelineError(Head(fetched))
       ELSE UNCHANGED <<pipelines, daily_stats, last_poll_at, call, nops, rebuilds>>

\* perform_initial_backfill: the upsert loop over the fetched pipelines
BackfillUpsert ==
    /\ pc = "backfill_upsert"
    /\ UpsertFetched
    /\ UNCHANGED <<clock, pc, current_loop_start, group, since_time, restarts, config, remote,
                   hist, sideVars>>

BackfillDone ==
    /\ pc = "backfill_upsert"
    /\ fetched = << >>
    /\ pc' = "startup_rebuild"
    /\ UNCHANGED <<pipelines, daily_stats, last_poll_at, call, nops, rebuilds, clock,
                   current_loop_start, group, since_time, fetched, restarts, config, remote,
                   hist, sideVars>>

\* main: backfill_daily_stats when daily_stats is empty, then spawn the monitor loop
StartupRebuild ==
    /\ pc = "startup_rebuild"
    /\ IF DOMAIN daily_stats = {}
       THEN BackfillDailyStats \/ BackfillDailyStatsError
       ELSE UNCHANGED <<pipelines, daily_stats, last_poll_at, call, nops, rebuilds>>
    /\ pc' = "cycle_start"
    /\ hist' = Record([hist EXCEPT !.covered = PerGroup(last_poll_at)])
    /\ UNCHANGED <<clock, current_loop_start, group, since_time, fetched, restarts,
                   config, remote, sideVars>>

---------------------------------------------------------------------------
(* start_monitor_loop.                                                     *)

\* after group g: the next group of the cycle, or the wait between cycles
AfterGroup(g) ==
    IF g < Len(config.monitor_groups)
    THEN group' = g + 1 /\ pc' = "read_watermark"
    ELSE group' = g /\ pc' = "wait"

\* let current_loop_start = Utc::now(); for group_path in monitor_groups
CycleStart ==
    /\ pc = "cycle_start"
    /\ current_loop_start' = clock
    /\ IF Len(config.monitor_groups) > 0
       THEN group' = 1 /\ pc' = "read_watermark"
       ELSE group' = 0 /\ pc' = "wait"
    /\ hist' = Record([hist EXCEPT !.cycle_wm = last_poll_at])
    /\ UNCHANGED <<pipelines, daily_stats, last_poll_at, call, nops, rebuilds, clock,
                   since_time, fetched, restarts, config, remote, sideVars>>

\* poll_time = now; last_poll_ts = get_last_poll, poll_time when the row is absent
ReadWatermark ==
    /\ pc = "read_watermark"
    /\ since_time' = UnwrapOr(GetLastPoll, clock)
    /\ pc' = "fetch"
    /\ hist' = Record([hist EXCEPT !.start_wm = None])
    /\ UNCHANGED <<pipelines, daily_stats, last_poll_at, call, nops, rebuilds, clock,
                   current_loop_start, group, fetched, restarts, config, remote, sideVars>>

\* get_last_poll returns Err: since_time is poll_time
ReadWatermarkError ==
    /\ pc = "read_watermark"
    /\ since_time' = clock
    /\ pc' = "fetch"
    /\ hist' = Record([hist EXCEPT !.start_wm = None])
    /\ UNCHANGED <<pipelines, daily_stats, last_poll_at, call, nops, rebuilds, clock,
                   current_loop_start, group, fetched, restarts, config, remote, sideVars>>

\* let query_time = since_time - Duration::seconds(60)
QueryTime(since) == since - 60

\* the remote update times a fetch with this since can return: pipelines(updatedAfter:
\* query_time), of the changes made so far, one every 100 seconds of the clock
UpdatedAfter(since) ==
    { t \in 0..clock : t % 100 = 0 /\ t > QueryTime(since) }

\* fetch_incremental_activity(group_path, since_time) returns Ok(projects)
FetchOk ==
    /\ pc = "fetch"
    /\ \E r \in FetchResults(remote.graphql) :
         \E u \in IF r = << >> THEN {None} ELSE { Some(t) : t \in UpdatedAfter(since_time) } :
            /\ fetched' = r
            /\ hist' = Record([hist EXCEPT !.covered[group] = Some(current_loop_start),
                                            !.failed[group] = None,
                                            !.lost[group] = None,
                                            !.got = u,
                                            !.wrote = FALSE])
    /\ pc' = "set_watermark"
    /\ UNCHANGED <<pipelines, daily_stats, last_poll_at, call, nops, rebuilds, clock,
                   current_loop_start, group, since_time, restarts, config, remote, sideVars>>

\* what the Err arm of the fetch leaves in poll_state: it logs and writes nothing
FailedFetchWatermark_CycleStart(wm, cycle_start) == Some(cycle_start)

FailedFetchWatermark(wm, cycle_start) == wm

\* fetch_incremental_activity returns Err: logged, on to the next group
FetchError ==
    /\ pc = "fetch"
    /\ AfterGroup(group)
    /\ last_poll_at' = FailedFetchWatermark(last_poll_at, current_loop_start)
    /\ hist' = Record([hist EXCEPT !.failed[group] = Some(since_time),
                                    !.lost[group] = None,
                                    !.got = None])
    /\ UNCHANGED <<pipelines, daily_stats, call, nops, rebuilds, clock,
                   current_loop_start, since_time, fetched, restarts, config, remote, sideVars>>

\* the value the loop writes to the watermark after a successful fetch
SuccessWatermark_QueryTime(cycle_start, since) == since - 60

SuccessWatermark(cycle_start, since) == cycle_start

\* Ok(projects): set_last_poll(current_loop_start.timestamp())
SetWatermark ==
    /\ pc = "set_watermark"
    /\ SetLastPoll("start_monitor_loop", SuccessWatermark(current_loop_start, since_time))
    /\ pc' = "upsert"
    /\ hist' = Record([hist EXCEPT !.wrote = TRUE])
    /\ UNCHANGED <<pipelines, daily_stats, nops, rebuilds, clock, current_loop_start,
                   group, since_time, fetched, restarts, config, remote, sideVars>>

\* the set_last_poll after the fetch fails: logged, the pipelines are upserted all the same
SetWatermarkError ==
    /\ pc = "set_watermark"
    /\ SetLastPollError("start_monitor_loop", SuccessWatermark(current_loop_start, since_time))
    /\ pc' = "upsert"
    /\ UNCHANGED <<pipelines, daily_stats, nops, rebuilds, clock, current_loop_start,
                   group, since_time, fetched, restarts, config, remote, hist, sideVars>>

\* for proj in projects, for pipeline in proj.pipelines: filter, insert_pipeline
MonitorUpsert ==
    /\ pc = "upsert"
    /\ UpsertFetched
    /\ hist' = IF BranchMatches(Head(fetched).ref_name) /\ ~call'.ok
               THEN Record([hist EXCEPT !.lost[group] = hist.got])
               ELSE hist
    /\ UNCHANGED <<clock, pc, current_loop_start, group, since_time, restarts, config, remote, sideVars>>

GroupDone ==
    /\ pc = "upsert"
    /\ fetched = << >>
    /\ AfterGroup(group)
    /\ UNCHANGED <<pipelines, daily_stats, last_poll_at, call, nops, rebuilds, clock,
                   current_loop_start, since_time, fetched, restarts, config, remote, hist, sideVars>>

\* select!: the interval elapsed or refresh_notify fired; the next cycle starts
Wake ==
    /\ pc = "wait"
    /\ pc' = "cycle_start"
    /\ UNCHANGED <<pipelines, daily_stats, last_poll_at, call, nops, rebuilds, clock,
                   current_loop_start, group, since_time, fetched, restarts, config, remote,
                   hist, sideVars>>

---------------------------------------------------------------------------
(* The environment of the process.                                         *)

\* time passes, 100 seconds at a time; the clock never goes back
Tick ==
    /\ clock < MaxClock * 100
    /\ clock' = clock + 100
    /\ UNCHANGED <<pipelines, daily_stats, last_poll_at, call, nops, rebuilds, pc,
                   current_loop_start, group, since_time, fetched, restarts, config, remote,
                   hist, sideVars>>

\* the process stops and is started again on the same database file
Restart ==
    /\ restarts < MaxRestarts
    /\ restarts' = restarts + 1
    /\ pc' = "init_db"
    /\ current_loop_start' = 0
    /\ group' = 0
    /\ since_time' = 0
    /\ fetched' = << >>
    /\ hist' = Record(RunStart(last_poll_at))
    /\ UNCHANGED <<pipelines, daily_stats, last_poll_at, call, nops, rebuilds, clock,
                   config, remote, sideVars>>

\* the process at its start on an empty store, under the settings cfg
ProcessStart(cfg, gitlab, record) ==
    /\ StoreInit
    /\ clock = 0
    /\ pc = "init_db"
    /\ current_loop_start = 0
    /\ group = 0
    /\ since_time = 0
    /\ fetched = << >>
    /\ restarts = 0
    /\ config = cfg
    /\ remote = gitlab
    /\ hist = IF record THEN RunStart(None) ELSE NoRecord
    /\ SideIdle

\* GitLab serving the observations rest to fetch_pipelines and graphql to
\* fetch_incremental_activity
Remote(rest, graphql) == [rest |-> rest, graphql |-> graphql]

InitMonitor ==
    ProcessStart(Config(MonitorGroups, BranchFilter),
                 Remote(BackfillObservations, FetchedObservations), FALSE)

NextMonitor ==
    \/ InitDb \/ MainSetLastPoll \/ MainSetLastPollError
    \/ StartBackfill \/ BackfillUpsert \/ BackfillDone \/ StartupRebuild
    \/ CycleStart \/ ReadWatermark \/ ReadWatermarkError
    \/ FetchOk \/ FetchError \/ SetWatermark \/ SetWatermarkError
    \/ MonitorUpsert \/ GroupDone \/ Wake
    \/ Tick \/ Restart

\* the process from its start: main, then the monitor loop, under a running clock
SpecMonitor == InitMonitor /\ [][NextMonitor]_vars

\* one running pipeline on the filtered branch, created after the backfill
RunningObservations ==
    { p \in FetchedObservations : p.ref_name = "main" /\ p.status = "running" }

\* one finished pipeline on another branch, there at the backfill
OtherBranchObservations ==
    { p \in BackfillObservations : p.ref_name = "dev" /\ p.status = "success" }

InitPoll ==
    ProcessStart(Config(MonitorGroups, BranchFilter),
                 Remote(OtherBranchObservations, RunningObservations), TRUE)

\* the same process, with the record of its fetches kept
SpecPoll == InitPoll /\ [][NextMonitor]_vars

\* valid branch filter regexes: one that matches main only, one that matches no ref
ValidFilters == { Some({"main"}), Some({}) }

InitFilter ==
    \E filter \in ValidFilters :
        ProcessStart(Config(MonitorGroups, filter),
                     Remote(BackfillObservations, FetchedObservations), FALSE)

\* the process under each of the valid branch filters
SpecFilter == InitFilter /\ [][NextMonitor]_vars

InitPollOne ==
    ProcessStart(Config(<<"grp">>, BranchFilter), Remote(OtherBranchObservations, RunningObservations), TRUE)

\* the same again with one configured group
SpecPollOne == InitPollOne /\ [][NextMonitor]_vars

---------------------------------------------------------------------------
(* fetch_incremental_activity: the pages of one group, post_graphql.       *)

\* the pages one fetch of a group can take
MaxPages == 2

\* Result<T>
Ok(v) == [ok |-> TRUE, value |-> v]
Err == [ok |-> FALSE]

\* a global id, "gid://gitlab/<kind>/<last>", as its segments between the '/'
Gid(kind, last) == <<"gid:", "", "gitlab", kind, last>>

\* str::parse::<u64> on the decimal numerals of the ids in use
Decimal == [s \in {"1", "2", "7"} |-> CASE s = "1" -> 1 [] s = "2" -> 2 [] s = "7" -> 7]

\* parse_gid: s.rsplit('/').next().unwrap_or("0").parse::<u64>()
ParseGid(gid) ==
    LET last == gid[Len(gid)]
    IN  IF last \in DOMAIN Decimal THEN Ok(Decimal[last]) ELSE Err

\* a pipeline node of the response, as GitLab sends it
PipelineNode(gid, created) ==
    [id |-> gid, status |-> "RUNNING", created_at |-> created, finished_at |-> None,
     duration |-> None, ref_name |-> "main", user |-> "alice"]

\* the pipeline lists of the project on page i: none, pipeline i, pipeline i with a
\* createdAt that is no timestamp, and pipeline i after a pipeline whose global id
\* ends in no number
PipelineLists(i) ==
    LET good == PipelineNode(Gid("Ci::Pipeline", IF i = 1 THEN "1" ELSE "2"), Rfc3339(172800))
        late == [good EXCEPT !.created_at = NotATime]
        anon == PipelineNode(Gid("Ci::Pipeline", "latest"), Rfc3339(172800))
    IN  { << >>, <<good>>, <<late>>, <<anon, good>> }

\* an HTTP response of /api/graphql: the status, the errors of the body and
\* data.group, a page of the group's projects
Response(status, errors, page) == [status |-> status, errors |-> errors, group |-> page]

\* the responses to the i-th request of a fetch that takes n pages
Responses(i, n) ==
    { Response(200, << >>,
               Some([has_next_page |-> i < n,
                     nodes |-> <<[id |-> Gid("Project", "7"), name |-> "app",
                                  pipelines |-> pl]>>])) : pl \in PipelineLists(i) }
    \cup { Response(500, << >>, None),
           Response(200, <<"boom">>, None),
           Response(200, << >>, None) }

\* what GitLab answers to the successive requests of a fetch
PageSequences ==
    UNION { { pages \in [1..n -> UNION { Responses(i, n) : i \in 1..n }] :
                \A i \in 1..n : pages[i] \in Responses(i, n) } : n \in 1..MaxPages }

\* serde_json::from_value into GroupQueryResponse: ProjectNode.id and
\* PipelineInfo.id go through parse_gid, and one Err fails the whole response
FromValue(page) ==
    IF page = None THEN Ok(None)
    ELSE LET nodes == Unwrap(page).nodes
             GidsParse ==
                 \A k \in DOMAIN nodes :
                     /\ ParseGid(nodes[k].id).ok
                     /\ \A j \in DOMAIN nodes[k].pipelines :
                            ParseGid(nodes[k].pipelines[j].id).ok
             Typed(node) ==
                 [node EXCEPT !.id = ParseGid(node.id).value,
                              !.pipelines = [j \in DOMAIN node.pipelines |->
                                  [node.pipelines[j] EXCEPT
                                      !.id = ParseGid(node.pipelines[j].id).value]]]
         IN  IF GidsParse
             THEN Ok(Some([Unwrap(page) EXCEPT !.nodes = [k \in DOMAIN nodes |-> Typed(nodes[k])]]))
             ELSE Err

\* post_graphql: a non-2xx status and a non-empty errors array bail
PostGraphql(resp) ==
    IF resp.status \notin 200..299 THEN Err
    ELSE IF resp.errors # << >> THEN Err
    ELSE FromValue(resp.group)

\* self.post_graphql(query, variables).await? with active_projects collected so far
PageFailed_Partial(active_projects) == Ok(active_projects)

PageFailed(active_projects) == Err

\* the while has_next_page loop from request i on
RECURSIVE FetchFrom(_, _, _)
FetchFrom(pages, i, active_projects) ==
    IF i > Len(pages) THEN Ok(active_projects)
    ELSE LET response == PostGraphql(pages[i])
         IN  IF ~response.ok THEN PageFailed(active_projects)
             ELSE IF response.value = None THEN Err
             ELSE LET projects == Unwrap(response.value)
                      active == SelectSeq(projects.nodes, LAMBDA p : p.pipelines # << >>)
                  IN  IF projects.has_next_page
                      THEN FetchFrom(pages, i + 1, active_projects \o active)
                      ELSE Ok(active_projects \o active)

\* fetch_incremental_activity(group_path, since_time)
FetchIncrementalActivity(pages) == FetchFrom(pages, 1, << >>)

\* for proj in projects, for pipeline in proj.pipelines: to_db_pipeline, in order
RECURSIVE ToDbPipelines(_)
ToDbPipelines(projects) ==
    IF projects = << >> THEN << >>
    ELSE LET proj == Head(projects)
         IN  [j \in DOMAIN proj.pipelines |->
                  PipelineInfoToDb(proj.pipelines[j], proj.id, proj.name)]
             \o ToDbPipelines(Tail(projects))

\* the fetch of the group returns Ok(projects)
FetchPagesOk ==
    /\ pc = "fetch"
    /\ LET result == FetchIncrementalActivity(remote.pages)
       IN  /\ result.ok
           /\ nops + Len(ToDbPipelines(result.value)) <= MaxOps
           /\ fetched' = ToDbPipelines(result.value)
    /\ pc' = "set_watermark"
    /\ UNCHANGED <<pipelines, daily_stats, last_poll_at, call, nops, rebuilds, clock,
                   current_loop_start, group, since_time, restarts, config, remote, hist,
                   sideVars>>

\* the fetch of the group returns Err: logged, on to the next group
FetchPagesError ==
    /\ pc = "fetch"
    /\ ~FetchIncrementalActivity(remote.pages).ok
    /\ AfterGroup(group)
    /\ last_poll_at' = FailedFetchWatermark(last_poll_at, current_loop_start)
    /\ UNCHANGED <<pipelines, daily_stats, call, nops, rebuilds, clock,
                   current_loop_start, since_time, fetched, restarts, config, remote, hist,
                   sideVars>>

\* GitLab with nothing to backfill, answering every fetch with the pages
InitPages ==
    \E pages \in PageSequences :
        ProcessStart(Config(<<"grp">>, None),
                     [rest |-> {}, graphql |-> {}, pages |-> pages], FALSE)

NextPages ==
    \/ InitDb \/ MainSetLastPoll \/ MainSetLastPollError
    \/ StartBackfill \/ BackfillDone \/ StartupRebuild
    \/ CycleStart \/ ReadWatermark \/ ReadWatermarkError
    \/ FetchPagesOk \/ FetchPagesError \/ SetWatermark \/ SetWatermarkError
    \/ MonitorUpsert \/ GroupDone \/ Wake
    \/ Tick

\* the process with the incremental fetch taken page by page
SpecPages == InitPages /\ [][NextPages]_vars

---------------------------------------------------------------------------
(* fetch_pipelines_concurrent: the fan-out of the backfill.                *)

\* let concurrency: usize = 10, as perform_initial_backfill passes it
BackfillConcurrency == 10

\* let max_retries: u32 = 3
MaxRetries == 3

\* exponential backoff: 500ms * 2^(attempt-1)
BackoffBaseMs == 500

\* project_ids: the projects 1..n
ProjectIds(n) == 1..n

\* the semaphore sizes the function is run with
Concurrencies == (1..MaxConcurrency) \cup {BackfillConcurrency}

\* a task as join_set.spawn leaves it: waiting at sem_clone.acquire_owned()
Spawned == [st |-> "spawned", attempt |-> 0, calls |-> 0, waits |-> << >>, out |-> "none"]

\* the tasks that hold a permit: past the acquire and not yet at the end of the block
PastAcquire == { pid \in DOMAIN task : task[pid].st \in {"fetching", "sleeping"} }

\* Semaphore::new(concurrency) with held permits taken from it
AvailablePermits_NotCounted(held) == concurrency

AvailablePermits(held) == concurrency - held

\* if attempt > max_retries { return (pid, Err(e.into())) }
GivesUp(attempt) == attempt > MaxRetries

\* 500u64.saturating_mul(1u64 << (attempt - 1))
Backoff_NotDoubled(attempt) == BackoffBaseMs

Backoff(attempt) == BackoffBaseMs * 2 ^ (attempt - 1)

\* what fetch_pipelines returns for the project pid when it succeeds
Pipes(pid) == <<pid>>

\* what one join_next pushes to results for a task that returned out
Pushed_FailedDropped(pid, out) == IF out = "ok" THEN << Pipes(pid) >> ELSE << >>

Pushed(pid, out) == IF out = "ok" THEN << Pipes(pid) >> ELSE << << >> >>

\* acquire_owned() returns the permit; attempt += 1; fetch_pipelines is called
Acquire ==
    \E pid \in DOMAIN task :
        /\ task[pid].st = "spawned"
        /\ AvailablePermits(Cardinality(PastAcquire)) > 0
        /\ task' = [task EXCEPT ![pid].st = "fetching", ![pid].attempt = 1,
                                ![pid].calls = 1]
        /\ UNCHANGED <<storeVars, loopVars, enricherVars, txVars, notifyVars, concurrency, results>>

\* fetch_pipelines returns Ok(pipes): the task returns (pid, Ok(pipes))
FetchSucceeds ==
    \E pid \in DOMAIN task :
        /\ task[pid].st = "fetching"
        /\ task' = [task EXCEPT ![pid].st = "returned", ![pid].out = "ok"]
        /\ UNCHANGED <<storeVars, loopVars, enricherVars, txVars, notifyVars, concurrency, results>>

\* fetch_pipelines returns Err: the task gives up, or sleeps the backoff
FetchFails ==
    \E pid \in DOMAIN task :
        /\ task[pid].st = "fetching"
        /\ IF GivesUp(task[pid].attempt)
           THEN task' = [task EXCEPT ![pid].st = "returned", ![pid].out = "err"]
           ELSE task' = [task EXCEPT ![pid].st = "sleeping",
                                     ![pid].waits = Append(@, Backoff(task[pid].attempt))]
        /\ UNCHANGED <<storeVars, loopVars, enricherVars, txVars, notifyVars, concurrency, results>>

\* the sleep is over: continue; attempt += 1; fetch_pipelines is called again
SleepOver ==
    \E pid \in DOMAIN task :
        /\ task[pid].st = "sleeping"
        /\ task' = [task EXCEPT ![pid].st = "fetching", ![pid].attempt = @ + 1,
                                ![pid].calls = @ + 1]
        /\ UNCHANGED <<storeVars, loopVars, enricherVars, txVars, notifyVars, concurrency, results>>

\* join_set.join_next() yields a finished task: its entry is pushed to results
JoinNext ==
    \E pid \in DOMAIN task :
        /\ task[pid].st = "returned"
        /\ task' = [task EXCEPT ![pid].st = "joined"]
        /\ results' = [results EXCEPT ![pid] = @ \o Pushed(pid, task[pid].out)]
        /\ UNCHANGED <<storeVars, loopVars, enricherVars, txVars, notifyVars, concurrency>>

\* join_next() yields None: the function returns Ok(results)
Returned == \A pid \in DOMAIN task : task[pid].st = "joined"

\* the call fetch_pipelines_concurrent(client, project_ids, updated_after, concurrency)
InitFanout ==
    /\ StoreInit
    /\ LoopIdle
    /\ EnricherIdle
    /\ TxIdle
    /\ NotifyIdle
    /\ concurrency \in Concurrencies
    /\ \E n \in 0..MaxProjects :
          /\ task = [pid \in ProjectIds(n) |-> Spawned]
          /\ results = [pid \in ProjectIds(n) |-> << >>]

NextFanout == Acquire \/ FetchSucceeds \/ FetchFails \/ SleepOver \/ JoinNext

SpecFanout == InitFanout /\ [][NextFanout]_vars

\* the runtime polls every task that can run, and every request and sleep ends
SpecFanoutFair == SpecFanout /\ WF_vars(NextFanout)

---------------------------------------------------------------------------
(* The aggregate table against the grouping of the fact table.             *)

\* the (date, project_id, status) triple a fact row is grouped to
FactKey(row) == <<Date(row.created_at), row.project_id, row.status>>

FactIds(key) == { i \in DOMAIN pipelines : FactKey(pipelines[i]) = key }

\* every triple that has a cell or a fact row
StatKeys == DOMAIN daily_stats \cup { FactKey(pipelines[i]) : i \in DOMAIN pipelines }

CellCount(key) == IF key \in DOMAIN daily_stats THEN daily_stats[key].count ELSE 0
CellTotalDuration(key) ==
    IF key \in DOMAIN daily_stats THEN daily_stats[key].total_duration ELSE 0
CellCountWithDuration(key) ==
    IF key \in DOMAIN daily_stats THEN daily_stats[key].count_with_duration ELSE 0

\* C1: after any sequence of upserts from the empty store, the count of every
\* (date, project_id, status) cell equals the number of fact rows of that triple
\* (a missing cell counts as 0).
C1_CountEqualsFactRows ==
    \A key \in StatKeys : CellCount(key) = Cardinality(FactIds(key))

\* C2: after any sequence of upserts from the empty store, the total_duration of
\* every cell equals the sum of the stored durations of the fact rows of its triple
\* whose duration is present.
C2_TotalDurationEqualsFactSum ==
    \A key \in StatKeys : CellTotalDuration(key) = SumDuration(FactIds(key))

\* C3: after any sequence of upserts from the empty store, the count_with_duration of
\* every cell equals the number of fact rows of its triple whose duration is present.
C3_CountWithDurationEqualsFactRows ==
    \A key \in StatKeys :
        CellCountWithDuration(key) =
            Cardinality({ i \in FactIds(key) : IsSome(pipelines[i].duration) })

\* C4: in every reachable state every cell has 0 <= count_with_duration <= count and
\* total_duration >= 0; no sequence of upserts drives a field of a cell below zero.
C4_CellsNeverNegative ==
    \A key \in DOMAIN daily_stats :
        /\ 0 <= daily_stats[key].count_with_duration
        /\ daily_stats[key].count_with_duration <= daily_stats[key].count
        /\ 0 <= daily_stats[key].total_duration

\* the last operation was insert_pipeline finding a row with finished_at present,
\* the incoming observation having none
TerminalRowReobserved ==
    /\ call.op = "insert_pipeline"
    /\ call.existing # None
    /\ IsSome(Unwrap(call.existing).finished_at)
    /\ call.p.finished_at = None

\* C5: when the stored row of a pipeline has finished_at present and an upsert of the
\* same pipeline arrives with finished_at absent, the row's status and finished_at
\* after the upsert are those before it.
C5_TerminalRowKeepsStatus ==
    TerminalRowReobserved =>
        /\ pipelines[call.p.id].status = Unwrap(call.existing).status
        /\ pipelines[call.p.id].finished_at = Unwrap(call.existing).finished_at

\* C5 witness: a committed non-terminal observation with another status met a
\* finished row, whose status stayed
C5_Witness ==
    /\ TerminalRowReobserved
    /\ call.ok
    /\ call.p.status # Unwrap(call.existing).status
    /\ pipelines[call.p.id].status = Unwrap(call.existing).status

\* C6: a stale non-terminal re-observation (finished_at and duration absent, another
\* status than the stored one) of a pipeline whose stored row is terminal leaves the
\* fact row and every aggregate cell unchanged (scenario S3).
C6_StaleReobservationChangesNothing ==
    [][ ( /\ call'.op = "insert_pipeline"
          /\ call'.existing # None
          /\ IsSome(Unwrap(call'.existing).finished_at)
          /\ call'.p.finished_at = None
          /\ call'.p.duration = None
          /\ call'.p.status # Unwrap(call'.existing).status )
        => (pipelines' = pipelines /\ daily_stats' = daily_stats) ]_vars

\* count, total_duration and count_with_duration of every cell agree with the fact table
AggregatesConsistent ==
    /\ C1_CountEqualsFactRows
    /\ C2_TotalDurationEqualsFactSum
    /\ C3_CountWithDurationEqualsFactRows

\* this step is a committed backfill_daily_stats, the first since the store was empty
FirstRebuildStep == call'.op = "backfill_daily_stats" /\ call'.ok /\ rebuilds = 0

\* C7: rebuild_aggregates is a fixed point on a consistent store: when every cell was
\* produced by the upsert path and agrees with the fact table, the rebuild leaves
\* every field of every cell (project_name included) as it was.
C7_RebuildFixedPoint ==
    [][ (FirstRebuildStep /\ AggregatesConsistent) => daily_stats' = daily_stats ]_vars

\* C8: for every sequence of upserts from the empty store, a rebuild right after the
\* last upsert leaves count, total_duration and count_with_duration of every cell
\* as they were.
C8_RebuildAfterUpsertsKeepsCounts ==
    [][ FirstRebuildStep =>
          /\ DOMAIN daily_stats' = DOMAIN daily_stats
          /\ \A key \in DOMAIN daily_stats :
                /\ daily_stats'[key].count = daily_stats[key].count
                /\ daily_stats'[key].total_duration = daily_stats[key].total_duration
                /\ daily_stats'[key].count_with_duration =
                       daily_stats[key].count_with_duration ]_vars

\* C9: after a committed rebuild, from any aggregate table contents, the cells equal
\* the grouping of the fact table: count, total_duration and count_with_duration of
\* every cell are COUNT(*), SUM(duration) and the number of rows with a duration of
\* its triple, and a cell with no fact rows has count 0.
C9_RebuildEqualsGrouping ==
    (call.op = "backfill_daily_stats" /\ call.ok) => AggregatesConsistent

\* C10: the persisted watermark last_poll_at never decreases: every write to it (at
\* startup and after each successful incremental fetch) stores a value greater than
\* or equal to the one it replaces, the clock never going back.
C10_WatermarkNeverDecreases ==
    [][ \A w \in last_poll_at : \E w2 \in last_poll_at' : w2 >= w ]_vars

\* C10 witness: the monitor loop replaced a watermark by a strictly later one
C10_Witness ==
    /\ call.op = "set_last_poll"
    /\ call.by = "start_monitor_loop"
    /\ call.ok
    /\ call.before # None
    /\ call.ts > Unwrap(call.before)
    /\ last_poll_at = Some(call.ts)

---------------------------------------------------------------------------
(* The watermark across the cycles of the monitor loop.                    *)

\* the cycle of the one configured group is over and its fetch failed
FailedCycle == pc = "wait" /\ hist.failed[1] # None

\* the cycle of the one configured group is over and its fetch succeeded
SucceededCycle == pc = "wait" /\ hist.failed[1] = None

C12_FailedRangeRetried ==
    [][ (ReadWatermark /\ hist.failed[group] # None)
            => since_time' <= Unwrap(hist.failed[group]) ]_vars

\* C13: the since given to the fetch of a group is no later than the start of the
\* latest earlier cycle in which the fetch of that group succeeded, or than the
\* watermark at the start of the loop when there was none
C13_NoGapPerGroup ==
    [][ (ReadWatermark /\ hist.covered[group] # None)
            => since_time' <= Unwrap(hist.covered[group]) ]_vars

\* C14: when the process starts on a store that holds the watermark W, the first
\* fetch of the monitor loop is given since = W
C14_FirstFetchFromStoredWatermark ==
    [][ (ReadWatermark /\ hist.start_wm # None)
            => since_time' = Unwrap(hist.start_wm) ]_vars

\* C16: when the upsert of a pipeline of a successful fetch failed, the window of
\* the next fetch of that group, its since less 60 seconds, starts no later than
\* the remote update time of that pipeline
C16_FailedUpsertStillInWindow ==
    [][ (ReadWatermark /\ hist.lost[group] # None)
            => QueryTime(since_time') <= Unwrap(hist.lost[group]) ]_vars

---------------------------------------------------------------------------
(* The transaction of insert_pipeline.                                     *)

\* C15: one insert_pipeline call writes the fact row and the aggregates together
\* when it commits, and leaves both tables as they were before the call when a
\* statement or the commit fails
C15_UpsertIsAtomic ==
    [][ (call'.op = "insert_pipeline" /\ nops' = nops + 1)
            => IF call'.ok
               THEN /\ pipelines' = UpsertedPipelines(call'.p)
                    /\ daily_stats' = UpsertedStats(call'.p)
               ELSE /\ pipelines' = pipelines
                    /\ daily_stats' = daily_stats ]_vars

\* a failed upsert of a new status for a stored row, the row still as it was
C15_Witness ==
    /\ call.op = "insert_pipeline"
    /\ ~call.ok
    /\ call.existing # None
    /\ call.p.status # Unwrap(call.existing).status
    /\ pipelines[call.p.id] = Unwrap(call.existing)

---------------------------------------------------------------------------
(* The branch filter.                                                      *)

\* C20: under a valid branch filter every fact row and every insert_pipeline call
\* is of a pipeline whose ref_name the regex matches, and a regex that matches no
\* ref leaves both tables empty
C20_OnlyMatchingRefsUpserted ==
    config.branch_filter # None =>
        /\ \A i \in DOMAIN pipelines :
              pipelines[i].ref_name \in Unwrap(config.branch_filter)
        /\ call.op = "insert_pipeline" =>
              call.p.ref_name \in Unwrap(config.branch_filter)
        /\ Unwrap(config.branch_filter) = {} =>
              pipelines = << >> /\ daily_stats = << >>

\* the upsert loop of the monitor is at a pipeline of branch dev, which the filter
\* rejects, while the store holds a row of a matching pipeline
C20_Witness ==
    /\ pc = "upsert"
    /\ fetched # << >>
    /\ Head(fetched).ref_name \notin Unwrap(config.branch_filter)
    /\ DOMAIN pipelines # {}

---------------------------------------------------------------------------
(* The fan-out of the backfill.                                            *)

IsPrefix(s, t) == Len(s) <= Len(t) /\ \A i \in 1..Len(s) : s[i] = t[i]

C18_AtMostConcurrencyPastAcquire ==
    /\ Cardinality(PastAcquire) <= concurrency
    /\ concurrency <= BackfillConcurrency

\* every permit is held and another task waits at the acquire
C18_Witness ==
    /\ Cardinality(PastAcquire) = concurrency
    /\ \E pid \in DOMAIN task : task[pid].st = "spawned"

\* the result entry of a project: its pipelines when an attempt succeeded, the
\* empty list when every attempt failed
ExpectedEntry(pid) == IF task[pid].out = "ok" THEN Pipes(pid) ELSE << >>

\* C19: fetch_pipelines_concurrent returns, and what it returns has exactly one
\* entry for each input project: its pipelines when an attempt succeeded, the
\* empty list when every attempt failed, whatever became of the other projects
C19_OneEntryPerProject ==
    /\ <>Returned
    /\ [](Returned => \A pid \in DOMAIN task : results[pid] = << ExpectedEntry(pid) >>)

\* the call returned with one project failed for good and another one fetched
C19_Witness ==
    /\ Returned
    /\ \E pid \in DOMAIN task : task[pid].out = "err" /\ results[pid] = << << >> >>
    /\ \E pid \in DOMAIN task : task[pid].out = "ok" /\ results[pid] = << Pipes(pid) >>

---------------------------------------------------------------------------
(* The columns of the fact row.                                            *)

\* an insert_pipeline call that committed on a row that was there
UpsertOfExisting == call'.op = "insert_pipeline" /\ nops' = nops + 1 /\ call'.ok
                    /\ call'.existing # None

\* C24: on an upsert of an existing pipeline the stored user_name is kept when the
\* incoming user_name is empty, and replaced by the incoming one when it is not
C24_EmptyUserNameKeepsStored ==
    [][ UpsertOfExisting =>
            pipelines'[call'.p.id].user_name =
                IF call'.p.user_name = ""
                THEN Unwrap(call'.existing).user_name
                ELSE Some(call'.p.user_name) ]_vars

\* C25: the created_at of a fact row stays what the first insert wrote, whatever
\* created_at a later observation of the pipeline carries
C25_CreatedAtNeverChanges ==
    [][ UpsertOfExisting =>
            pipelines'[call'.p.id].created_at = Unwrap(call'.existing).created_at ]_vars

\* an observation with another created_at was upserted on a stored row
C25_Witness ==
    /\ call.op = "insert_pipeline"
    /\ call.ok
    /\ call.existing # None
    /\ call.p.created_at # Unwrap(call.existing).created_at
    /\ pipelines[call.p.id].created_at = Unwrap(call.existing).created_at

\* C26: the duration of a fact row, when present, is greater than 0
C26_DurationPositive ==
    \A i \in DOMAIN pipelines :
        pipelines[i].duration # None => Unwrap(pipelines[i].duration) > 0

TerminalStatuses == {"success", "failed", "canceled", "skipped"}

\* C27: a fact row with finished_at present has a terminal status
C27_FinishedRowIsTerminal ==
    \A i \in DOMAIN pipelines :
        pipelines[i].finished_at # None => pipelines[i].status \in TerminalStatuses

---------------------------------------------------------------------------
(* backfill_usernames: the task that fills in missing user names.          *)

\* rows of the store at the start of the task
MaxRows == 11

\* rows of the store at the start of the task, where its runs are followed to their end
MaxFairRows == 3

\* LIMIT 500 of the batch query
BatchLimit == 500

\* ids.chunks(50)
ChunkSize == 50

\* let concurrency: usize = 10
EnricherConcurrency == 10

Min(a, b) == IF a < b THEN a ELSE b

RECURSIVE Ascending(_)
\* the ids of a set in the order of the primary key, as the table scan yields them
Ascending(idset) ==
    IF idset = {} THEN << >>
    ELSE LET least == CHOOSE i \in idset : \A j \in idset : i <= j
         IN  << least >> \o Ascending(idset \ {least})

\* WHERE user_name IS NULL OR user_name = ''
MissingUserName(row) == row.user_name = None \/ row.user_name = Some("")

\* SELECT id, project_id FROM pipelines WHERE ... LIMIT 500
SelectMissing(rows) ==
    LET found == Ascending({ i \in DOMAIN rows : MissingUserName(rows[i]) })
    IN  SubSeq(found, 1, Min(Len(found), BatchLimit))

\* the chunk number c (from 0) of ids.chunks(50)
ChunkOf(rows, c) == SubSeq(rows, c * ChunkSize + 1, Min(Len(rows), (c + 1) * ChunkSize))

\* for &(pid, proj_id) in chunk { set.spawn(..); if set.len() >= concurrency { break; } }:
\* the row at position k is spawned when the loop did not break before it
SpawnedOf(rows) ==
    { rows[k] : k \in { n \in 1..Len(rows) : n = 1 \/ n - 1 < EnricherConcurrency } }

\* what a user lookup answers: Err, or Ok of an Option of a name
Answer(ok, name) == [ok |-> ok, name |-> name]

\* match fetch_pipeline_user_by_gid: the arms Ok(None) and Err(_) try the REST fallback
RestFallback_OnNoUserOnly(graphql) == graphql.ok /\ graphql.name = None

RestFallback(graphql) == ~(graphql.ok /\ graphql.name # None)

\* the lookup task: GraphQL first; on Ok(None) or Err the REST fallback, whose Err is None
Lookup(u) ==
    IF ~RestFallback(u.graphql) THEN u.graphql.name
    ELSE IF u.rest.ok THEN u.rest.name ELSE None

\* the requests the lookup task of pipeline pid sends to GitLab
LookupCalls(pid, u) == [id |-> pid, graphql |-> TRUE, rest |-> RestFallback(u.graphql)]

\* UPDATE pipelines SET user_name = ? WHERE id = ? AND (user_name IS NULL OR user_name = '')
UpdateUserName_Unguarded(rows, pid, name) ==
    [i \in DOMAIN rows |-> IF i = pid THEN [rows[i] EXCEPT !.user_name = Some(name)]
                           ELSE rows[i]]

UpdateUserName(rows, pid, name) ==
    [i \in DOMAIN rows |->
        IF i = pid /\ MissingUserName(rows[i])
        THEN [rows[i] EXCEPT !.user_name = Some(name)]
        ELSE rows[i]]

UpdateCall(pid, name) ==
    [op |-> "update_user_name", id |-> pid, name |-> name,
     before |-> IF pid \in DOMAIN pipelines THEN pipelines[pid].user_name ELSE None]

\* the batch query returns rows, or none: the loop breaks and the task ends
EnricherQuery ==
    /\ enricher = "query"
    /\ LET rows == SelectMissing(pipelines)
       IN  IF rows = << >>
           THEN /\ enricher' = "exited"
                /\ UNCHANGED <<batch, looked>>
           ELSE /\ enricher' = "spawn"
                /\ batch' = rows
                /\ looked' = {}
    /\ chunk' = 0
    /\ UNCHANGED <<storeVars, loopVars, fanoutVars, txVars, notifyVars, set, users, asked>>

\* the batch query fails: the task returns
EnricherQueryError ==
    /\ enricher = "query"
    /\ enricher' = "failed"
    /\ UNCHANGED <<storeVars, loopVars, fanoutVars, txVars, notifyVars, batch, chunk, set, users, looked, asked>>

\* the lookup tasks of the next chunk are spawned
EnricherSpawn ==
    /\ enricher = "spawn"
    /\ set' = SpawnedOf(ChunkOf(batch, chunk))
    /\ looked' = looked \cup set'
    /\ enricher' = "join"
    /\ UNCHANGED <<storeVars, loopVars, fanoutVars, txVars, notifyVars, batch, chunk, users, asked>>

\* join_next() yields a lookup: a name is written back, None is dropped
EnricherJoin ==
    /\ enricher = "join"
    /\ \E pid \in set :
          /\ set' = set \ {pid}
          /\ asked' = LookupCalls(pid, users[pid])
          /\ LET found == Lookup(users[pid])
             IN  IF found # None
                 THEN /\ pipelines' = UpdateUserName(pipelines, pid, Unwrap(found))
                      /\ call' = UpdateCall(pid, Unwrap(found))
                 ELSE UNCHANGED <<pipelines, call>>
    /\ UNCHANGED <<daily_stats, last_poll_at, nops, rebuilds>>
    /\ UNCHANGED <<loopVars, fanoutVars, txVars, notifyVars, enricher, batch, chunk, users, looked>>

\* join_next() yields None: the sleep, then the next chunk, or the next batch query
EnricherChunkDone ==
    /\ enricher = "join"
    /\ set = {}
    /\ chunk' = chunk + 1
    /\ enricher' = IF (chunk + 1) * ChunkSize < Len(batch) THEN "spawn" ELSE "query"
    /\ UNCHANGED <<storeVars, loopVars, fanoutVars, txVars, notifyVars, batch, set, users, looked, asked>>

\* the stored row of pipeline i after the REST backfill: no user name
StoredRow(i) ==
    BoundRow(Pipeline(i, 7, "app", "main", "", "success", 1704067200,
                      Some(1704067500), Some(300)))

\* the monitor loop upserts an observation of pipeline 1 that carries its user name
EnricherMonitorUpsert ==
    /\ nops < MaxOps
    /\ 1 \in DOMAIN pipelines
    /\ InsertPipeline(Pipeline(1, 7, "app", "main", "bob", "success", 1704067200,
                               Some(1704067500), Some(300)))
    /\ UNCHANGED monitorVars

\* GitLab knows the user of every pipeline but those of unknown, which have none;
\* with graphql FALSE the GraphQL lookup fails and the REST lookup answers
UsersOf(n, unknown, graphql) ==
    [i \in 1..n |->
        LET name == IF i \in unknown THEN None ELSE Some("alice")
        IN  [graphql |-> IF graphql THEN Answer(TRUE, name) ELSE Answer(FALSE, None),
             rest |-> Answer(TRUE, name)]]

\* main spawns backfill_usernames on a store of n rows without user names, n of sizes
EnricherStart(sizes) ==
    /\ \E n \in sizes :
          /\ pipelines = [i \in 1..n |-> StoredRow(i)]
          /\ \E unknown \in {{}, {1}}, graphql \in BOOLEAN :
                users = UsersOf(n, unknown, graphql)
    /\ daily_stats = [k \in GroupKeys |-> GroupCell(CHOOSE g \in Groups : ConflictKey(g) = k)]
    /\ last_poll_at = Some(0)
    /\ call = NoCall
    /\ nops = 0
    /\ rebuilds = 0
    /\ LoopIdle
    /\ FanoutIdle
    /\ TxIdle
    /\ NotifyIdle
    /\ enricher = "query"
    /\ batch = << >>
    /\ chunk = 0
    /\ set = {}
    /\ looked = {}
    /\ asked = NoLookup

\* the steps the task takes when the store and GitLab answer
EnricherRuns == EnricherQuery \/ EnricherSpawn \/ EnricherJoin \/ EnricherChunkDone

NextEnricher ==
    \/ EnricherQuery \/ EnricherQueryError \/ EnricherSpawn \/ EnricherJoin
    \/ EnricherChunkDone \/ EnricherMonitorUpsert

InitEnricher == EnricherStart({0, 1, MaxRows})

SpecEnricher == InitEnricher /\ [][NextEnricher]_vars

InitEnricherFair == EnricherStart(0..MaxFairRows)

\* the runtime keeps polling the task, and every query and lookup returns
SpecEnricherFair == InitEnricherFair /\ [][NextEnricher]_vars /\ WF_vars(EnricherRuns)

\* rows of the store where every combination of answers is tried
MaxLookupRows == 2

\* what the two lookups of a pipeline can answer
GraphqlAnswers == { Answer(TRUE, Some("alice")), Answer(TRUE, None), Answer(FALSE, None) }
RestAnswers == { Answer(TRUE, Some("carol")), Answer(TRUE, None), Answer(FALSE, None) }

\* main spawns backfill_usernames on a few rows without user names, GitLab
\* answering the lookups of each pipeline in one of the ways above
InitLookup ==
    /\ \E n \in 1..MaxLookupRows :
          /\ pipelines = [i \in 1..n |-> StoredRow(i)]
          /\ users \in [1..n -> [graphql : GraphqlAnswers, rest : RestAnswers]]
    /\ daily_stats = [k \in GroupKeys |-> GroupCell(CHOOSE g \in Groups : ConflictKey(g) = k)]
    /\ last_poll_at = Some(0)
    /\ call = NoCall
    /\ nops = 0
    /\ rebuilds = 0
    /\ LoopIdle
    /\ FanoutIdle
    /\ TxIdle
    /\ NotifyIdle
    /\ enricher = "query"
    /\ batch = << >>
    /\ chunk = 0
    /\ set = {}
    /\ looked = {}
    /\ asked = NoLookup

\* the enricher under every combination of answers
SpecLookup == InitLookup /\ [][NextEnricher]_vars

\* C21: a write-back of the enricher changes no row whose user_name is non-empty
\* at the time of the write
C21_EnricherKeepsNonEmptyName ==
    [][ enricher = "join" /\ set' # set =>
            \A i \in DOMAIN pipelines :
                (pipelines[i].user_name # None /\ pipelines[i].user_name # Some(""))
                    => pipelines'[i] = pipelines[i] ]_vars

\* the enricher read pipeline 1 without a name, a monitor upsert then set the name,
\* and the write-back of the looked-up name left it
C21_Witness ==
    /\ call.op = "update_user_name"
    /\ call.id = 1
    /\ call.before = Some("bob")
    /\ call.name = "alice"
    /\ pipelines[1].user_name = Some("bob")

\* C22: when the next batch is queried, every row of the batch before was given to
\* a lookup task
C22_BatchFullyLookedUp ==
    enricher = "query" => \A k \in 1..Len(batch) : batch[k] \in looked

AlwaysAnswers == \A i \in DOMAIN users : users[i].graphql.ok /\ users[i].rest.ok

\* C23: when GitLab answers every lookup, the enricher eventually ends
C23_EnricherTerminates ==
    AlwaysAnswers => <>(enricher = "exited" \/ enricher = "failed")

---------------------------------------------------------------------------
(* The transactions of the monitor loop and of POST /api/refresh_daily_stats, *)
(* each on a connection of the pool.                                       *)

\* transactions begun and not yet ended
OpenTransactions == (IF upsert_tx # None THEN 1 ELSE 0) + (IF refresh_tx THEN 1 ELSE 0)

\* the monitor loop calls insert_pipeline(p): state.db.begin() returns the transaction
UpsertBegin ==
    /\ nops + OpenTransactions < MaxOps
    /\ upsert_tx = None
    /\ \E p \in Observations : upsert_tx' = Some(p)
    /\ UNCHANGED <<storeVars, loopVars, fanoutVars, enricherVars, notifyVars, refresh_tx, tasks>>

\* the statements of insert_pipeline and its commit succeed
UpsertCommit ==
    /\ upsert_tx # None
    /\ InsertPipeline(Unwrap(upsert_tx))
    /\ upsert_tx' = None
    /\ UNCHANGED <<loopVars, fanoutVars, enricherVars, notifyVars, refresh_tx, tasks>>

\* a statement of insert_pipeline or its commit fails
UpsertRollback ==
    /\ upsert_tx # None
    /\ InsertPipelineError(Unwrap(upsert_tx))
    /\ upsert_tx' = None
    /\ UNCHANGED <<loopVars, fanoutVars, enricherVars, notifyVars, refresh_tx, tasks>>

\* the handler of POST /api/refresh_daily_stats calls backfill_daily_stats:
\* pool.begin() returns the transaction
RefreshBegin ==
    /\ nops + OpenTransactions < MaxOps
    /\ ~refresh_tx
    /\ refresh_tx' = TRUE
    /\ UNCHANGED <<storeVars, loopVars, fanoutVars, enricherVars, notifyVars, upsert_tx, tasks>>

\* the statement of backfill_daily_stats and its commit succeed
RefreshCommit ==
    /\ refresh_tx
    /\ BackfillDailyStats
    /\ refresh_tx' = FALSE
    /\ UNCHANGED <<loopVars, fanoutVars, enricherVars, notifyVars, upsert_tx, tasks>>

\* the statement of backfill_daily_stats or its commit fails
RefreshRollback ==
    /\ refresh_tx
    /\ BackfillDailyStatsError
    /\ refresh_tx' = FALSE
    /\ UNCHANGED <<loopVars, fanoutVars, enricherVars, notifyVars, upsert_tx, tasks>>

NextTx ==
    \/ UpsertBegin \/ UpsertCommit \/ UpsertRollback
    \/ RefreshBegin \/ RefreshCommit \/ RefreshRollback

\* the monitor loop upserting while the operator triggers rebuilds
SpecTx == InitUpsert /\ [][NextTx]_vars

\* C28: no state has an upsert transaction and a rebuild transaction both open
C28_UpsertAndRebuildNeverBothOpen == ~(upsert_tx # None /\ refresh_tx)

---------------------------------------------------------------------------
(* main, perform_initial_backfill and the monitor loop task as the futures *)
(* the runtime polls, each insert_pipeline call from its begin to its end. *)

\* pipelines one fetch of the backfill returns
MaxFetched == 2

\* insert_pipeline calls that have begun and not returned
InFlight == { t \in DOMAIN tasks : tasks[t].tx # None }

\* the sequences of at most n of the observations obs that pass the branch filter
Fetches(obs, n) ==
    LET kept == { p \in obs : BranchMatches(p.ref_name) }
    IN  UNION { [1..k -> kept] : k \in 0..n }

\* perform_initial_backfill(state.clone()).await: main goes on when the future ended
Awaited_Detached(future) == TRUE

Awaited(future) == future.at = "done"

\* main: is_fresh_install, and the call of perform_initial_backfill, which fetches
\* the pipelines of the projects
MainBackfill ==
    /\ tasks["main"].at = "start"
    /\ IF DOMAIN pipelines = {}
       THEN \E r \in Fetches(remote.rest, MaxFetched) :
               tasks' = [tasks EXCEPT !["main"].at = "await_backfill",
                                      !["backfill"] = [NotStarted EXCEPT !.at = "upsert",
                                                                         !.todo = r]]
       ELSE tasks' = [tasks EXCEPT !["main"].at = "rebuild"]
    /\ UNCHANGED <<storeVars, loopVars, fanoutVars, enricherVars, notifyVars,
                   upsert_tx, refresh_tx>>

\* the task t calls insert_pipeline on its next pipeline: state.db.begin()
InsertBegin(t) ==
    /\ tasks[t].todo # << >>
    /\ tasks[t].tx = None
    /\ nops + Cardinality(InFlight) < MaxOps
    /\ tasks' = [tasks EXCEPT ![t].tx = Some(Head(tasks[t].todo)),
                              ![t].todo = Tail(tasks[t].todo)]
    /\ UNCHANGED <<storeVars, loopVars, fanoutVars, enricherVars, notifyVars,
                   upsert_tx, refresh_tx>>

\* the insert_pipeline call of task t returns, committed or not
InsertEnd(t) ==
    /\ tasks[t].tx # None
    /\ InsertPipeline(Unwrap(tasks[t].tx)) \/ InsertPipelineError(Unwrap(tasks[t].tx))
    /\ tasks' = [tasks EXCEPT ![t].tx = None, ![t].calls = tasks[t].calls + 1]
    /\ UNCHANGED <<loopVars, fanoutVars, enricherVars, notifyVars, upsert_tx, refresh_tx>>

\* perform_initial_backfill: insert_pipeline(&state, db_p).await in the loops
BackfillInsertBegin == tasks["backfill"].at = "upsert" /\ InsertBegin("backfill")

BackfillInsertEnd == tasks["backfill"].at = "upsert" /\ InsertEnd("backfill")

\* perform_initial_backfill returns
BackfillReturns ==
    /\ tasks["backfill"].at = "upsert"
    /\ tasks["backfill"].todo = << >>
    /\ tasks["backfill"].tx = None
    /\ tasks' = [tasks EXCEPT !["backfill"].at = "done"]
    /\ UNCHANGED <<storeVars, loopVars, fanoutVars, enricherVars, notifyVars,
                   upsert_tx, refresh_tx>>

\* main is past the .await of the backfill
MainAwaited ==
    /\ tasks["main"].at = "await_backfill"
    /\ Awaited(tasks["backfill"])
    /\ tasks' = [tasks EXCEPT !["main"].at = "rebuild"]
    /\ UNCHANGED <<storeVars, loopVars, fanoutVars, enricherVars, notifyVars,
                   upsert_tx, refresh_tx>>

\* main: backfill_daily_stats when daily_stats is empty
MainRebuild ==
    /\ tasks["main"].at = "rebuild"
    /\ IF DOMAIN daily_stats = {}
       THEN BackfillDailyStats \/ BackfillDailyStatsError
       ELSE UNCHANGED storeVars
    /\ tasks' = [tasks EXCEPT !["main"].at = "spawn_monitor"]
    /\ UNCHANGED <<loopVars, fanoutVars, enricherVars, notifyVars, upsert_tx, refresh_tx>>

\* main: tokio::spawn(start_monitor_loop), then the web server
MainSpawnsMonitor ==
    /\ tasks["main"].at = "spawn_monitor"
    /\ tasks' = [tasks EXCEPT !["main"].at = "serve",
                              !["monitor"] = [NotStarted EXCEPT !.at = "fetch", !.group = 1]]
    /\ UNCHANGED <<storeVars, loopVars, fanoutVars, enricherVars, notifyVars,
                   upsert_tx, refresh_tx>>

\* the group after g of the cycle, the first group of the next cycle after the last
NextGroup(g) == IF g < Len(config.monitor_groups) THEN g + 1 ELSE 1

\* start_monitor_loop: the fetch of the group returns Ok(projects) and the
\* watermark is written
MonitorFetchOk ==
    /\ tasks["monitor"].at = "fetch"
    /\ \E r \in Fetches(remote.graphql, 1) :
          tasks' = [tasks EXCEPT !["monitor"].at = "upsert", !["monitor"].todo = r]
    /\ SetLastPoll("start_monitor_loop", clock)
    /\ UNCHANGED <<pipelines, daily_stats, nops, rebuilds, loopVars, fanoutVars,
                   enricherVars, notifyVars, upsert_tx, refresh_tx>>

\* the fetch of the group returns Err: on to the next group
MonitorFetchError ==
    /\ tasks["monitor"].at = "fetch"
    /\ tasks' = [tasks EXCEPT !["monitor"].group = NextGroup(tasks["monitor"].group)]
    /\ UNCHANGED <<storeVars, loopVars, fanoutVars, enricherVars, notifyVars,
                   upsert_tx, refresh_tx>>

\* start_monitor_loop: insert_pipeline(&state, db_p).await in the loops
MonitorInsertBegin == tasks["monitor"].at = "upsert" /\ InsertBegin("monitor")

MonitorInsertEnd == tasks["monitor"].at = "upsert" /\ InsertEnd("monitor")

\* the pipelines of the group are done: the next group, or the wait and the next cycle
MonitorGroupDone ==
    /\ tasks["monitor"].at = "upsert"
    /\ tasks["monitor"].todo = << >>
    /\ tasks["monitor"].tx = None
    /\ tasks' = [tasks EXCEPT !["monitor"].at = "fetch",
                              !["monitor"].group = NextGroup(tasks["monitor"].group)]
    /\ UNCHANGED <<storeVars, loopVars, fanoutVars, enricherVars, notifyVars,
                   upsert_tx, refresh_tx>>

\* main starts on the empty store; the runtime has no future of it yet
InitTasks ==
    /\ StoreInit
    /\ clock = 0
    /\ pc = "idle"
    /\ current_loop_start = 0
    /\ group = 0
    /\ since_time = 0
    /\ fetched = << >>
    /\ restarts = 0
    /\ config = Config(MonitorGroups, BranchFilter)
    /\ remote = Remote(BackfillObservations, FetchedObservations)
    /\ hist = NoRecord
    /\ FanoutIdle
    /\ EnricherIdle
    /\ NotifyIdle
    /\ upsert_tx = None
    /\ refresh_tx = FALSE
    /\ tasks = [NoTasks EXCEPT !["main"].at = "start"]

NextTasks ==
    \/ MainBackfill \/ BackfillInsertBegin \/ BackfillInsertEnd \/ BackfillReturns
    \/ MainAwaited \/ MainRebuild \/ MainSpawnsMonitor
    \/ MonitorFetchOk \/ MonitorFetchError
    \/ MonitorInsertBegin \/ MonitorInsertEnd \/ MonitorGroupDone

\* the futures of the process, polled in any order
SpecTasks == InitTasks /\ [][NextTasks]_vars

---------------------------------------------------------------------------
(* The wait between two cycles of the monitor loop: select! over the sleep *)
(* and refresh_notify.notified().                                          *)

\* force-refresh signals per behaviour
MaxSignals == 3

\* poller.interval_seconds of the settings tried
Intervals == {100, 200}

\* what notified() leaves of the permit it completes on
Consume_Kept(held) == held

Consume(held) == FALSE

\* select! is entered with no permit: sleep(interval_seconds) starts now, and
\* notified() waits
Select ==
    /\ pc = "wait"
    /\ ~permit
    /\ pc' = "select"
    /\ waiter' = "waiting"
    /\ wait_since' = clock
    /\ gap_fired' = FALSE
    /\ UNCHANGED <<storeVars, clock, current_loop_start, group, since_time, fetched,
                   restarts, config, remote, hist, fanoutVars, enricherVars, txVars,
                   permit, signals, bursts, woken>>

\* select! is entered with a permit: notified() completes at its first poll,
\* "Received force refresh signal."
NotifiedAtOnce ==
    /\ pc = "wait"
    /\ permit
    /\ permit' = Consume(permit)
    /\ woken' = woken + 1
    /\ pc' = "cycle_start"
    /\ wait_since' = clock
    /\ gap_fired' = FALSE
    /\ UNCHANGED <<storeVars, clock, current_loop_start, group, since_time, fetched,
                   restarts, config, remote, hist, fanoutVars, enricherVars, txVars,
                   waiter, signals, bursts>>

\* the branch of sleep completes: the interval elapsed; a notification the
\* dropped notified() had received goes back to the Notify
SleepElapsed ==
    /\ pc = "select"
    /\ clock >= wait_since + config.interval_seconds
    /\ pc' = "cycle_start"
    /\ waiter' = "none"
    /\ permit' = (permit \/ waiter = "notified")
    /\ UNCHANGED <<storeVars, clock, current_loop_start, group, since_time, fetched,
                   restarts, config, remote, hist, fanoutVars, enricherVars, txVars,
                   signals, gap_fired, bursts, woken, wait_since>>

\* the branch of notified() completes: "Received force refresh signal."
Notified ==
    /\ pc = "select"
    /\ waiter = "notified"
    /\ waiter' = "none"
    /\ woken' = woken + 1
    /\ pc' = "cycle_start"
    /\ UNCHANGED <<storeVars, clock, current_loop_start, group, since_time, fetched,
                   restarts, config, remote, hist, fanoutVars, enricherVars, txVars,
                   permit, signals, gap_fired, bursts, wait_since>>

\* a force-refresh signal is fired, a single-consumer notification: the waiting
\* notified() is notified; with none waiting the permit is set, which is one
\* permit however many signals set it
NotifyOne ==
    /\ signals < MaxSignals
    /\ signals' = signals + 1
    /\ IF waiter = "waiting"
       THEN waiter' = "notified" /\ UNCHANGED permit
       ELSE permit' = TRUE /\ UNCHANGED waiter
    /\ IF pc = "select"
       THEN bursts' = bursts + 1 /\ UNCHANGED gap_fired
       ELSE /\ bursts' = IF gap_fired THEN bursts ELSE bursts + 1
            /\ gap_fired' = TRUE
    /\ UNCHANGED <<storeVars, loopVars, fanoutVars, enricherVars, txVars, woken, wait_since>>

\* the monitor loop is started with no group to poll and an interval of Intervals
InitWait ==
    /\ StoreInit
    /\ clock = 0
    /\ pc = "cycle_start"
    /\ current_loop_start = 0
    /\ group = 0
    /\ since_time = 0
    /\ fetched = << >>
    /\ restarts = 0
    /\ \E i \in Intervals :
          config = [monitor_groups |-> << >>, branch_filter |-> None,
                    interval_seconds |-> i]
    /\ remote = Remote({}, {})
    /\ hist = NoRecord
    /\ SideIdle

NextWait ==
    \/ CycleStart \/ Select \/ NotifiedAtOnce \/ SleepElapsed \/ Notified
    \/ NotifyOne \/ Tick

\* the cycles and waits of the monitor loop, with force-refresh signals
SpecWait == InitWait /\ [][NextWait]_vars

---------------------------------------------------------------------------
(* The aggregate cells an upsert adjusts.                                  *)

\* the three counters of the cell key, zeros for a cell that is not there
Counters(ds, key) ==
    IF key \in DOMAIN ds
    THEN [count |-> ds[key].count, total_duration |-> ds[key].total_duration,
          count_with_duration |-> ds[key].count_with_duration]
    ELSE [count |-> 0, total_duration |-> 0, count_with_duration |-> 0]

\* the counters c with dc, dd and dcw added
Adjusted(c, dc, dd, dcw) ==
    [count |-> c.count + dc, total_duration |-> c.total_duration + dd,
     count_with_duration |-> c.count_with_duration + dcw]

\* the cell of an observation or of a stored row
CellKey(row) == <<Date(row.created_at), row.project_id, row.status>>

\* every cell but those of keys is as it was
OtherCellsKept(keys) ==
    \A k \in (DOMAIN daily_stats \cup DOMAIN daily_stats') \ keys :
        k \in DOMAIN daily_stats /\ k \in DOMAIN daily_stats' /\ daily_stats'[k] = daily_stats[k]

\* the duration of an observation as the cells count it
DurationAdded(o) == UnwrapOr(o.duration, 0)
WithDuration(o) == IF o.duration # None THEN 1 ELSE 0

\* an insert_pipeline call that committed on a pipeline without a row
UpsertOfNew == call'.op = "insert_pipeline" /\ nops' = nops + 1 /\ call'.ok
               /\ call'.existing = None

\* C31: an upsert of a pipeline without a fact row inserts the row and changes one
\* cell, that of (day of created_at, project_id, status): count + 1, total_duration
\* + the duration if present, count_with_duration + 1 if present
C31_NewPipelineIncrementsOneCell ==
    [][ UpsertOfNew =>
          LET o == call'.p
          IN  /\ o.id \notin DOMAIN pipelines
              /\ o.id \in DOMAIN pipelines'
              /\ pipelines'[o.id].status = o.status
              /\ pipelines'[o.id].created_at = o.created_at
              /\ pipelines'[o.id].duration = o.duration
              /\ Counters(daily_stats', CellKey(o)) =
                    Adjusted(Counters(daily_stats, CellKey(o)), 1, DurationAdded(o),
                             WithDuration(o))
              /\ OtherCellsKept({CellKey(o)}) ]_vars

\* scenario S1: a pending pipeline without duration was inserted into the empty store
C31_Witness ==
    /\ call.op = "insert_pipeline" /\ call.ok /\ call.existing = None
    /\ nops = 1
    /\ call.p.status = "pending" /\ call.p.duration = None
    /\ call.p.id \in DOMAIN pipelines
    /\ Counters(daily_stats, CellKey(call.p)) =
          [count |-> 1, total_duration |-> 0, count_with_duration |-> 0]

\* C32: an upsert of an existing non-terminal pipeline with another status takes
\* the row out of the cell of the old status and adds it to the cell of the new one
C32_StatusChangeMovesBetweenCells ==
    [][ ( /\ UpsertOfExisting
          /\ Unwrap(call'.existing).status \notin TerminalStatuses
          /\ Unwrap(call'.existing).status # call'.p.status ) =>
          LET o == call'.p
              old == Unwrap(call'.existing)
          IN  /\ Counters(daily_stats', CellKey(old)) =
                    Adjusted(Counters(daily_stats, CellKey(old)), 0 - 1,
                             0 - DurationAdded(old), 0 - WithDuration(old))
              /\ Counters(daily_stats', CellKey(o)) =
                    Adjusted(Counters(daily_stats, CellKey(o)), 1, DurationAdded(o),
                             WithDuration(o))
              /\ OtherCellsKept({CellKey(old), CellKey(o)}) ]_vars

\* scenario S2: pending, then success with duration 300
C32_Witness ==
    /\ call.op = "insert_pipeline" /\ call.ok /\ call.existing # None
    /\ nops = 2
    /\ Unwrap(call.existing).status = "pending"
    /\ call.p.status = "success" /\ call.p.duration = Some(300)
    /\ Counters(daily_stats, CellKey(Unwrap(call.existing))).count = 0
    /\ Counters(daily_stats, CellKey(call.p)) =
          [count |-> 1, total_duration |-> 300, count_with_duration |-> 1]

\* C33: an upsert of an existing pipeline with the stored status leaves count as it
\* is; both durations present adds new - old to total_duration, a late duration adds
\* it and 1 to count_with_duration, both absent changes nothing
C33_SameStatusAdjustsDurationOnly ==
    [][ (UpsertOfExisting /\ Unwrap(call'.existing).status = call'.p.status) =>
          LET o == call'.p
              old == Unwrap(call'.existing)
              before == Counters(daily_stats, CellKey(o))
              after == Counters(daily_stats', CellKey(o))
          IN  /\ after.count = before.count
              /\ OtherCellsKept({CellKey(o)})
              /\ (old.duration # None /\ o.duration # None) =>
                    after = Adjusted(before, 0, Unwrap(o.duration) - Unwrap(old.duration), 0)
              /\ (old.duration = None /\ o.duration # None) =>
                    after = Adjusted(before, 0, Unwrap(o.duration), 1)
              /\ (old.duration = None /\ o.duration = None) => after = before ]_vars

\* scenario S4: a success row without duration, then the same status with duration 120
C33_Witness ==
    /\ call.op = "insert_pipeline" /\ call.ok /\ call.existing # None
    /\ nops = 2
    /\ Unwrap(call.existing).status = "success"
    /\ Unwrap(call.existing).duration = None
    /\ call.p.status = "success" /\ call.p.duration = Some(120)
    /\ Counters(daily_stats, CellKey(call.p)) =
          [count |-> 1, total_duration |-> 120, count_with_duration |-> 1]

\* C34: an upsert of an existing pipeline without an incoming duration keeps the
\* stored duration, and the cell the row is in afterwards still counts it: the
\* same cell keeps its duration fields, another cell gains the duration
C34_KeptDurationStaysCounted ==
    [][ ( /\ UpsertOfExisting
          /\ call'.p.duration = None
          /\ Unwrap(call'.existing).duration # None ) =>
          LET old == Unwrap(call'.existing)
              row == pipelines'[call'.p.id]
              before == Counters(daily_stats, CellKey(row))
              after == Counters(daily_stats', CellKey(row))
          IN  /\ row.duration = old.duration
              /\ IF CellKey(row) = CellKey(old)
                 THEN /\ after.total_duration = before.total_duration
                      /\ after.count_with_duration = before.count_with_duration
                 ELSE /\ after.total_duration = before.total_duration + Unwrap(old.duration)
                      /\ after.count_with_duration = before.count_with_duration + 1 ]_vars

\* the cells an upsert changed
ChangedCells ==
    { k \in DOMAIN daily_stats \cup DOMAIN daily_stats' :
        k \notin DOMAIN daily_stats \/ k \notin DOMAIN daily_stats'
        \/ daily_stats'[k] # daily_stats[k] }

\* C35: an upsert changes at most two cells, both of the pipeline's project and of
\* the day of its stored created_at, and no other fact row
C35_UpsertTouchesOwnDayOnly ==
    [][ (call'.op = "insert_pipeline" /\ nops' = nops + 1 /\ call'.ok) =>
          LET row == pipelines'[call'.p.id]
          IN  /\ Cardinality(ChangedCells) <= 2
              /\ \A k \in ChangedCells :
                    k[1] = Date(row.created_at) /\ k[2] = row.project_id
              /\ \A i \in DOMAIN pipelines \ {call'.p.id} :
                    i \in DOMAIN pipelines' /\ pipelines'[i] = pipelines[i] ]_vars

\* C36: the same observation upserted twice in a row: the second upsert leaves the
\* fact rows and every cell as the first left them
C36_RedeliveryChangesNothing ==
    [][ ( /\ call.op = "insert_pipeline" /\ call.ok
          /\ call'.op = "insert_pipeline" /\ nops' = nops + 1 /\ call'.ok
          /\ call'.p = call.p ) =>
          (pipelines' = pipelines /\ daily_stats' = daily_stats) ]_vars

---------------------------------------------------------------------------
(* The paged fetch of a group.                                             *)

\* the request that GitLab answers with a non-2xx status or with GraphQL errors,
\* every earlier page announcing a next one
FailedRequests ==
    { i \in 1..Len(remote.pages) :
        /\ remote.pages[i].status \notin 200..299 \/ remote.pages[i].errors # << >>
        /\ \A j \in 1..(i - 1) :
              remote.pages[j].group # None /\ Unwrap(remote.pages[j].group).has_next_page }

\* the step of the monitor loop that fetches the group
FetchStep == pc = "fetch" /\ pc' # "fetch"

WellFormedIds ==
    LET lists == { Unwrap(remote.pages[i].group).nodes[1].pipelines :
                     i \in { k \in 1..Len(remote.pages) : remote.pages[k].group # None } }
        gids == UNION { { pl[j].id : j \in DOMAIN pl } : pl \in lists }
    IN  { Decimal[gid[5]] : gid \in { g \in gids : g[5] \in DOMAIN Decimal } }

\* C38: when every page is answered with status 200, no errors and the group, a
\* pipeline with a malformed global id or an unparsable timestamp does not fail the
\* fetch: the other pipelines are handed to the upsert and the watermark is written
C38_MalformedPipelineIsSkipped ==
    [][ ( /\ FetchStep
          /\ \A i \in 1..Len(remote.pages) :
                /\ remote.pages[i].status = 200
                /\ remote.pages[i].errors = << >>
                /\ remote.pages[i].group # None ) =>
          /\ pc' = "set_watermark"
          /\ WellFormedIds \subseteq { fetched'[k].id : k \in DOMAIN fetched' } ]_vars

---------------------------------------------------------------------------
(* The two lookups of the enricher.                                        *)

\* a lookup task is joined
LookupJoined == enricher = "join" /\ set' # set

---------------------------------------------------------------------------
(* The upsert transactions of the process.                                 *)

\* C40: at most one insert_pipeline call is in flight in the whole process
C40_OneUpsertInFlight == Cardinality(InFlight) <= 1

\* the backfill upserted and returned, and the monitor loop task has an
\* insert_pipeline call in flight
C40_Witness ==
    /\ tasks["backfill"].at = "done"
    /\ tasks["backfill"].calls >= 1
    /\ tasks["monitor"].tx # None

====
